---- MODULE Spec2Model ----
(***************************************************************************)
(* Model of the sync engine of ReadyNextOs Drive (src-tauri/src/sync.rs)   *)
(* together with the commands of main.rs that drive it.                    *)
(*                                                                         *)
(* Every calling context (the manual command, a timer) is a process that   *)
(* runs trigger_sync -> sync_all step by step; the steps are the points at *)
(* which sync_all touches shared state (the status slot, the activity log, *)
(* the filesystem) or starts / awaits a child process.  Each lock of the   *)
(* code is taken and released inside one statement, so one statement under *)
(* a lock is one atomic step.                                              *)
(*                                                                         *)
(* Texts are TLA+ strings; substring search and trimming are computed on   *)
(* them character by character.                                            *)
(*                                                                         *)
(* Spec is the application as main.rs wires it.  SpecLog and SpecRead put  *)
(* the activity log near its capacity, SpecWatch drives the FileWatcher of *)
(* watcher.rs directly (main.rs never starts it), and SpecLock follows the *)
(* commands one statement at a time, with every lock and unlock a step.    *)
(***************************************************************************)
EXTENDS Integers, Sequences, FiniteSets, TLC

\* ------------------------------------------------------------------ bounds

\* Number of run_bisync executions explored in one behaviour.
MaxRuns == 2

\* Number of complete successful sync_all calls that precede InitLog.
PriorCalls == 499

\* Number of log_activity calls explored after InitLog.
MaxAppends == 4

\* Number of raw events the channel of the watcher holds at a time.
MaxQueue == 3

\* Number of FileWatcher calls (start, stop, has_changes) in one behaviour.
MaxOps == 4

\* ------------------------------------------------------ program constants

\* Capacity of the activity log (sync.rs: "Keep only last 1000 entries").
LogCap == 1000

\* The limit of the get_activity command when it is given none.
DefaultLimit == 50

\* ------------------------------------------------------------------ values

\* The calling contexts that may run sync_all concurrently.
Procs == {"manual", "timer"}

\* The two directory targets, and the local directory of each.
Targets == {"personal", "shared"}

local_path(t) == IF t = "personal" THEN "/home/ReadyNextOs/Moje pliki"
                 ELSE "/home/ReadyNextOs/Udostepnione"

\* Option<T>: None, or Some(x).
None == <<>>
Some(x) == <<x>>

\* Result<(), String>; Unset stands for a result that does not exist (yet).
Ok == [ok |-> TRUE]
Err(e) == [ok |-> FALSE, err |-> e]
Unset == [unset |-> TRUE]
IsErr(r) == r # Unset /\ r # Ok

\* SyncStatus (config.rs).
NotConfigured == [tag |-> "NotConfigured"]
Idle == [tag |-> "Idle"]
Syncing == [tag |-> "Syncing"]
Conflict == [tag |-> "Conflict"]
Error(m) == [tag |-> "Error", message |-> m]

\* AppConfig: only the two fields is_configured reads vary; the local paths
\* are the defaults of AppConfig::default.
ServerUrls == {"", "https://d"}
UserEmails == {"", "u@d"}
Configs == [server_url : ServerUrls, user_email : UserEmails]
DefaultConfig == [server_url |-> "", user_email |-> ""]

\* is_configured with `||` written for `&&`.
is_configured_either(c) == c.server_url # "" \/ c.user_email # ""

is_configured(c) == c.server_url # "" /\ c.user_email # ""

\* The bearer token the keychain holds, and what `rclone obscure` prints for it.
Token == "tok"
ObscureStdouts == {" 0bs\n"}

\* What rclone bisync may write to stderr when it exits non-zero, and the
\* exit codes it may report.
Stderrs == {"", "a conflict", "CONFLICT", "Conflict"}
ExitCodes == {1}

\* ----------------------------------------------------------- text helpers

\* str::contains.
Contains(hay, needle) ==
    \E i \in 1..(Len(hay) - Len(needle) + 1) :
        SubSeq(hay, i, i + Len(needle) - 1) = needle

IsSpace(c) == c \in {" ", "\n", "\t", "\r"}

\* str::trim: strips white space at both ends.
RECURSIVE TrimStart(_)
TrimStart(s) == IF Len(s) > 0 /\ IsSpace(SubSeq(s, 1, 1))
                THEN TrimStart(SubSeq(s, 2, Len(s))) ELSE s
RECURSIVE TrimEnd(_)
TrimEnd(s) == IF Len(s) > 0 /\ IsSpace(SubSeq(s, Len(s), Len(s)))
              THEN TrimEnd(SubSeq(s, 1, Len(s) - 1)) ELSE s
Trim(s) == TrimEnd(TrimStart(s))

\* str::trim_end_matches('/').
RECURSIVE TrimEndSlash(_)
TrimEndSlash(s) == IF Len(s) > 0 /\ SubSeq(s, Len(s), Len(s)) = "/"
                   THEN TrimEndSlash(SubSeq(s, 1, Len(s) - 1)) ELSE s

\* AppConfig::personal_webdav_url and AppConfig::shared_webdav_url.
personal_webdav_url(c) == TrimEndSlash(c.server_url) \o "/dav/personal"
shared_webdav_url(c) == TrimEndSlash(c.server_url) \o "/dav/shared"
webdav_url(c, t) == IF t = "personal" THEN personal_webdav_url(c)
                    ELSE shared_webdav_url(c)

\* The conflict test of run_bisync.
IsConflictText(error) == Contains(error, "CONFLICT") \/ Contains(error, "conflict")

\* The errors of run_bisync when the sidecar cannot be created or run.
SidecarError == "Failed to create rclone sidecar"
RunError == "Failed to run rclone"

\* The error text run_bisync builds from a failed run.
ExitError(stderr, code) ==
    IF stderr = "" THEN "rclone exited with code Some(" \o ToString(code) \o ")"
    ELSE stderr

\* --------------------------------------------------------------- variables

VARIABLES
    config,            \* AppState.config
    status,            \* SyncEngine.status
    activity_log,      \* SyncEngine.activity_log
    dirs,              \* which local directories exist
    marker,            \* which directories hold .readynextos-sync-init
    pc,                \* per process: where the call stands
    cfg,               \* per process: the config snapshot sync_all was given
    token,             \* per process: the token sync_all was given
    obscured_token,    \* per process: local of sync_all
    personal_result,   \* per process: local of sync_all
    shared_result,     \* per process: local of sync_all
    is_first_run,      \* per process: local of run_bisync
    child,             \* per process: the child process it awaits, if any
    spawned,           \* per process: children this call started (bookkeeping)
    ret,               \* per process: what the call returned
    mine,              \* per process: append numbers of this call's entries
                       \* (bookkeeping)
    made,              \* per process: this call created a directory, kept
                       \* until its obscure step has succeeded (bookkeeping)
    runs,              \* run_bisync executions so far (bookkeeping)
    pushed,            \* every entry ever pushed to the log, in push order
                       \* (bookkeeping)
    watcher,           \* FileWatcher.watcher: None, or the paths it watches
    rx,                \* FileWatcher.rx: None, or the queue of the channel
    fresh,             \* a raw event was queued since the last start or
                       \* has_changes (bookkeeping)
    dropped,           \* queued events the last stop discarded (bookkeeping)
    ops,               \* FileWatcher calls so far (bookkeeping)
    called,            \* the last query made of the program, with what it
                       \* returned (bookkeeping)
    at,                \* per context: the statement it stands at when the
                       \* code is followed lock by lock (SpecLock)
    guards             \* per lock: the context that holds it, if any

vars == <<config, status, activity_log, dirs, marker, pc, cfg, token,
          obscured_token, personal_result, shared_result, is_first_run,
          child, spawned, ret, mine, made, runs, pushed,
          watcher, rx, fresh, dropped, ops, called, at, guards>>

shared == <<config, status, activity_log, dirs, marker, pushed>>
locals == <<cfg, token, obscured_token, personal_result, shared_result,
            is_first_run, child, spawned, ret, mine, made>>
watch == <<watcher, rx, fresh, dropped, ops>>
locks == <<at, guards>>
aside == <<watch, called, locks>>

\* The two locks of SyncEngine.
Locks == {"status", "activity_log"}

\* A context that executes no command.
Nowhere == [program |-> "none", index |-> 0]

\* No query has been made yet.
NoCall == [op |-> "none", arg |-> None, result |-> None]

\* FileWatcher::new, nothing asked of the program yet, and the two locks of
\* SyncEngine::new free.
NewWatcher ==
    /\ watcher = None
    /\ rx = None
    /\ fresh = FALSE
    /\ dropped = 0
    /\ ops = 0
    /\ called = NoCall
    /\ at = [p \in Procs |-> Nowhere]
    /\ guards = [l \in Locks |-> None]

\* An ActivityEntry.  The wall-clock timestamp is left out.
Entry(action, file_path, st, details) ==
    [action |-> action, file_path |-> file_path, status |-> st,
     details |-> details]

\* SyncEngine::new, AppState of main, and no call in progress.
Init ==
    /\ config = DefaultConfig
    /\ status = NotConfigured
    /\ activity_log = <<>>
    /\ dirs = [t \in Targets |-> FALSE]
    /\ marker = [t \in Targets |-> FALSE]
    /\ pc = [p \in Procs |-> "idle"]
    /\ cfg = [p \in Procs |-> DefaultConfig]
    /\ token = [p \in Procs |-> ""]
    /\ obscured_token = [p \in Procs |-> ""]
    /\ personal_result = [p \in Procs |-> Unset]
    /\ shared_result = [p \in Procs |-> Unset]
    /\ is_first_run = [p \in Procs |-> FALSE]
    /\ child = [p \in Procs |-> None]
    /\ spawned = [p \in Procs |-> <<>>]
    /\ ret = [p \in Procs |-> Unset]
    /\ mine = [p \in Procs |-> <<>>]
    /\ made = [p \in Procs |-> FALSE]
    /\ runs = 0
    /\ pushed = <<>>
    /\ NewWatcher

\* ------------------------------------------------------------- sync_all

\* The locals of sync_all as they are outside a call.
NoLocals(p) ==
    /\ cfg' = [cfg EXCEPT ![p] = DefaultConfig]
    /\ token' = [token EXCEPT ![p] = ""]
    /\ obscured_token' = [obscured_token EXCEPT ![p] = ""]
    /\ personal_result' = [personal_result EXCEPT ![p] = Unset]
    /\ shared_result' = [shared_result EXCEPT ![p] = Unset]
    /\ is_first_run' = [is_first_run EXCEPT ![p] = FALSE]

\* sync_all returns r: its locals are gone, the caller holds r.
Returns(p, r) ==
    /\ ret' = [ret EXCEPT ![p] = r]
    /\ pc' = [pc EXCEPT ![p] = "returned"]
    /\ NoLocals(p)

\* trigger_sync up to the call of sync_all: snapshot the configuration and
\* look the token up in the keychain (an external store: found or not).
trigger_sync(p) ==
    /\ pc[p] = "idle"
    /\ \E found \in BOOLEAN :
         IF found
         THEN /\ cfg' = [cfg EXCEPT ![p] = config]
              /\ token' = [token EXCEPT ![p] = Token]
              /\ pc' = [pc EXCEPT ![p] = "sync_all"]
              /\ UNCHANGED <<ret, obscured_token, personal_result,
                             shared_result, is_first_run>>
         ELSE Returns(p, Err("Not logged in"))
    /\ UNCHANGED <<shared, child, spawned, mine, made, runs>>
    /\ UNCHANGED aside

\* sync_all_enter with Idle written for Syncing.
sync_all_enter_idle(p) ==
    /\ pc[p] = "sync_all"
    /\ IF ~is_configured(cfg[p])
       THEN /\ Returns(p, Err("Not configured"))
            /\ status' = status
       ELSE /\ status' = Idle
            /\ pc' = [pc EXCEPT ![p] = "mkdir_personal"]
            /\ UNCHANGED <<ret, cfg, token, obscured_token, personal_result,
                           shared_result, is_first_run>>
    /\ UNCHANGED <<config, activity_log, dirs, marker, pushed,
                   child, spawned, mine, made, runs>>
    /\ UNCHANGED aside

\* sync_all, precondition and the write of Syncing.
sync_all_enter(p) ==
    /\ pc[p] = "sync_all"
    /\ IF ~is_configured(cfg[p])
       THEN /\ Returns(p, Err("Not configured"))
            /\ status' = status
       ELSE /\ status' = Syncing
            /\ pc' = [pc EXCEPT ![p] = "mkdir_personal"]
            /\ UNCHANGED <<ret, cfg, token, obscured_token, personal_result,
                           shared_result, is_first_run>>
    /\ UNCHANGED <<config, activity_log, dirs, marker, pushed,
                   child, spawned, mine, made, runs>>
    /\ UNCHANGED aside

\* create_dir_all with its result dropped (`let _ =` written for `?`).
create_dir_unchecked(p, t, here, next, msg) ==
    /\ pc[p] = here
    /\ \E created \in (IF dirs[t] THEN {TRUE} ELSE BOOLEAN) :
         /\ dirs' = [dirs EXCEPT ![t] = created]
         /\ made' = [made EXCEPT ![p] = @ \/ (created /\ ~dirs[t])]
    /\ pc' = [pc EXCEPT ![p] = next]
    /\ UNCHANGED <<config, status, activity_log, marker, pushed, ret, cfg, token,
                   obscured_token, personal_result, shared_result, is_first_run,
                   child, spawned, mine, runs>>
    /\ UNCHANGED aside

\* std::fs::create_dir_all(path)?: succeeds on a directory that exists,
\* otherwise creates it or fails; a failure returns from sync_all.
create_dir(p, t, here, next, msg) ==
    /\ pc[p] = here
    /\ \E created \in (IF dirs[t] THEN {TRUE} ELSE BOOLEAN) :
         IF created
         THEN /\ dirs' = [dirs EXCEPT ![t] = TRUE]
              /\ made' = [made EXCEPT ![p] = @ \/ ~dirs[t]]
              /\ pc' = [pc EXCEPT ![p] = next]
              /\ UNCHANGED <<ret, cfg, token, obscured_token, personal_result,
                             shared_result, is_first_run>>
         ELSE /\ Returns(p, Err(msg))
              /\ UNCHANGED <<dirs, made>>
    /\ UNCHANGED <<config, status, activity_log, marker, pushed,
                   child, spawned, mine, runs>>
    /\ UNCHANGED aside

mkdir_personal(p) ==
    create_dir(p, "personal", "mkdir_personal", "mkdir_shared",
               "Cannot create personal dir")

mkdir_shared(p) ==
    create_dir(p, "shared", "mkdir_shared", "obscure",
               "Cannot create shared dir")

\* obscure_password up to the start of `rclone obscure <password>`.
obscure_start(p) ==
    /\ pc[p] = "obscure"
    /\ \E sidecar \in BOOLEAN :
         IF sidecar
         THEN /\ child' = [child EXCEPT ![p] =
                     Some([kind |-> "obscure",
                           args |-> <<"obscure", token[p]>>,
                           env |-> {}])]
              /\ spawned' = [spawned EXCEPT ![p] = Append(@, "obscure")]
              /\ pc' = [pc EXCEPT ![p] = "obscure_wait"]
              /\ UNCHANGED <<ret, cfg, token, obscured_token, personal_result,
                             shared_result, is_first_run>>
         ELSE /\ Returns(p, Err("Failed to create rclone sidecar"))
              /\ UNCHANGED <<child, spawned>>
    /\ UNCHANGED <<shared, mine, made, runs>>
    /\ UNCHANGED aside

\* The obscure child ends: its trimmed stdout is the obscured token, or the
\* failure returns from sync_all.
obscure_done(p) ==
    /\ pc[p] = "obscure_wait"
    /\ child' = [child EXCEPT ![p] = None]
    /\ \/ \E out \in ObscureStdouts :
            /\ obscured_token' = [obscured_token EXCEPT ![p] = Trim(out)]
            /\ pc' = [pc EXCEPT ![p] = "bisync_personal"]
            /\ made' = [made EXCEPT ![p] = FALSE]
            /\ UNCHANGED <<ret, cfg, token, personal_result, shared_result,
                           is_first_run>>
       \/ \E msg \in {"Failed to obscure password: io", "Failed to obscure password"} :
            /\ Returns(p, Err(msg))
            /\ made' = made
    /\ UNCHANGED <<shared, spawned, mine, runs>>
    /\ UNCHANGED aside

\* ----------------------------------------------------------- run_bisync

\* The program counters of the steps of target t.
AtStart(t) == IF t = "personal" THEN "bisync_personal" ELSE "bisync_shared"
AtWait(t) == IF t = "personal" THEN "bisync_personal_wait" ELSE "bisync_shared_wait"
\* AtLog with the shared run started before the personal result is logged.
AtLog_personal_skipped(t) == IF t = "personal" THEN "bisync_shared" ELSE "log_shared"

AtLog(t) == IF t = "personal" THEN "log_personal" ELSE "log_shared"
AfterLog(t) == IF t = "personal" THEN "bisync_shared" ELSE "aggregate"

\* The argument list and the environment of the bisync child.
\* BisyncArgs with --resync pushed whatever the marker says.
BisyncArgs_always_resync(path, first) ==
    <<"bisync", ":webdav:", path, "--create-empty-src-dirs", "--resilient",
      "--conflict-resolve=newer", "--verbose", "--resync">>

BisyncArgs(path, first) ==
    <<"bisync", ":webdav:", path, "--create-empty-src-dirs", "--resilient",
      "--conflict-resolve=newer", "--verbose">>
    \o <<IF first THEN "--resync" ELSE "--recover">>

BisyncEnv(url, username, pass) ==
    { <<"RCLONE_WEBDAV_URL", url>>, <<"RCLONE_WEBDAV_USER", username>>,
      <<"RCLONE_WEBDAV_PASS", pass>> }

\* sync_all stores what run_bisync returned for target t.
SetResult(p, t, r) ==
    IF t = "personal"
    THEN /\ personal_result' = [personal_result EXCEPT ![p] = r]
         /\ shared_result' = shared_result
    ELSE /\ shared_result' = [shared_result EXCEPT ![p] = r]
         /\ personal_result' = personal_result

\* bisync_start with the token itself handed to the child.
bisync_start_plain_token(p, t) ==
    /\ pc[p] = AtStart(t)
    /\ runs < MaxRuns
    /\ runs' = runs + 1
    /\ is_first_run' = [is_first_run EXCEPT ![p] = ~marker[t]]
    /\ \E sidecar \in BOOLEAN :
         IF sidecar
         THEN /\ child' = [child EXCEPT ![p] =
                     Some([kind |-> t,
                           args |-> BisyncArgs(local_path(t), ~marker[t]),
                           env |-> BisyncEnv(webdav_url(cfg[p], t),
                                             cfg[p].user_email,
                                             token[p])])]
              /\ spawned' = [spawned EXCEPT ![p] = Append(@, t)]
              /\ pc' = [pc EXCEPT ![p] = AtWait(t)]
              /\ UNCHANGED <<personal_result, shared_result>>
         ELSE /\ SetResult(p, t, Err(SidecarError))
              /\ pc' = [pc EXCEPT ![p] = AtLog(t)]
              /\ UNCHANGED <<child, spawned>>
    /\ UNCHANGED <<shared, cfg, token, obscured_token, ret, mine, made>>
    /\ UNCHANGED aside

\* run_bisync up to the start of the child: the marker test, the argument
\* list, the environment.  A sidecar that cannot be created is this target's
\* failure.
bisync_start(p, t) ==
    /\ pc[p] = AtStart(t)
    /\ runs < MaxRuns
    /\ runs' = runs + 1
    /\ is_first_run' = [is_first_run EXCEPT ![p] = ~marker[t]]
    /\ \E sidecar \in BOOLEAN :
         IF sidecar
         THEN /\ child' = [child EXCEPT ![p] =
                     Some([kind |-> t,
                           args |-> BisyncArgs(local_path(t), ~marker[t]),
                           env |-> BisyncEnv(webdav_url(cfg[p], t),
                                             cfg[p].user_email,
                                             obscured_token[p])])]
              /\ spawned' = [spawned EXCEPT ![p] = Append(@, t)]
              /\ pc' = [pc EXCEPT ![p] = AtWait(t)]
              /\ UNCHANGED <<personal_result, shared_result>>
         ELSE /\ SetResult(p, t, Err(SidecarError))
              /\ pc' = [pc EXCEPT ![p] = AtLog(t)]
              /\ UNCHANGED <<child, spawned>>
    /\ UNCHANGED <<shared, cfg, token, obscured_token, ret, mine, made>>
    /\ UNCHANGED aside

\* StatusOnFailure without the conflict test.
StatusOnFailure_unclassified(error, st) == st

\* The status run_bisync leaves when the child exited non-zero with `error`.
StatusOnFailure(error, st) == IF IsConflictText(error) THEN Conflict ELSE st

\* The bisync child ends.  Exit 0: a first run writes the marker (best
\* effort).  Non-zero exit: the error text is classified.  A child that could
\* not be run is a failure without classification.
bisync_done(p, t) ==
    /\ pc[p] = AtWait(t)
    /\ child' = [child EXCEPT ![p] = None]
    /\ pc' = [pc EXCEPT ![p] = AtLog(t)]
    /\ \/ /\ SetResult(p, t, Err(RunError))
          /\ UNCHANGED <<status, marker>>
       \/ /\ SetResult(p, t, Ok)
          /\ \E written \in BOOLEAN :
               marker' = [marker EXCEPT ![t] = @ \/ (is_first_run[p] /\ written)]
          /\ status' = status
       \/ \E stderr \in Stderrs, code \in ExitCodes :
            /\ SetResult(p, t, Err(ExitError(stderr, code)))
            /\ status' = StatusOnFailure(ExitError(stderr, code), status)
            /\ marker' = marker
    /\ UNCHANGED <<config, activity_log, dirs, pushed, cfg, token,
                   obscured_token, is_first_run, spawned, ret, mine, made, runs>>
    /\ UNCHANGED aside

\* --------------------------------------------------------- log_activity

\* The log cut back with truncate(1000) written for drain(0..excess).
Drained_keep_oldest(log) == IF Len(log) > LogCap THEN SubSeq(log, 1, LogCap) ELSE log

\* Vec::drain(0..excess) after the push: the log without its oldest entries.
Drained(log) == IF Len(log) > LogCap
                THEN SubSeq(log, Len(log) - LogCap + 1, Len(log))
                ELSE log

\* log_activity: push, then keep the last LogCap entries.
Pushed(log, entry) == Drained(Append(log, entry))

ActionName(t) == IF t = "personal" THEN "sync_personal" ELSE "sync_shared"
ResultOf(p, t) == IF t = "personal" THEN personal_result[p] ELSE shared_result[p]

\* log_activity: the entry is built and, under the lock of the log, pushed
\* and the log cut back to LogCap entries.
log_activity(action, file_path, st, details) ==
    /\ activity_log' = Pushed(activity_log, Entry(action, file_path, st, details))
    /\ pushed' = Append(pushed, Entry(action, file_path, st, details))

\* log_result with the details of a failure left out.
log_result_no_details(p, t) ==
    /\ pc[p] = AtLog(t)
    /\ log_activity(ActionName(t), "", IF ResultOf(p, t) = Ok THEN "success" ELSE "error", None)
    /\ mine' = [mine EXCEPT ![p] = Append(@, Len(pushed) + 1)]
    /\ pc' = [pc EXCEPT ![p] = AfterLog(t)]
    /\ UNCHANGED <<config, status, dirs, marker, cfg, token, obscured_token,
                   personal_result, shared_result, is_first_run, child,
                   spawned, ret, made, runs>>
    /\ UNCHANGED aside

\* sync_all logs the result of target t.
log_result(p, t) ==
    /\ pc[p] = AtLog(t)
    /\ IF ResultOf(p, t) = Ok
       THEN log_activity(ActionName(t), "", "success", None)
       ELSE log_activity(ActionName(t), "", "error", Some(ResultOf(p, t).err))
    /\ mine' = [mine EXCEPT ![p] = Append(@, Len(pushed) + 1)]
    /\ pc' = [pc EXCEPT ![p] = AfterLog(t)]
    /\ UNCHANGED <<config, status, dirs, marker, cfg, token, obscured_token,
                   personal_result, shared_result, is_first_run, child,
                   spawned, ret, made, runs>>
    /\ UNCHANGED aside

\* ------------------------------------------------------------ aggregate

\* AggregateStatus with the two operands of `.or` exchanged.
AggregateStatus_shared_first(pr, sr) ==
    IF pr = Ok /\ sr = Ok THEN Idle
    ELSE Error(IF sr # Ok THEN sr.err ELSE pr.err)

\* The status sync_all writes from the two results.
AggregateStatus(pr, sr) ==
    IF pr = Ok /\ sr = Ok THEN Idle
    ELSE Error(IF pr # Ok THEN pr.err ELSE sr.err)

\* aggregate without the arm of the match that writes Idle.
aggregate_errors_only(p) ==
    /\ pc[p] = "aggregate"
    /\ status' = IF personal_result[p] = Ok /\ shared_result[p] = Ok THEN status
                 ELSE AggregateStatus(personal_result[p], shared_result[p])
    /\ Returns(p, Ok)
    /\ UNCHANGED <<config, activity_log, dirs, marker, pushed,
                   child, spawned, mine, made, runs>>
    /\ UNCHANGED aside

aggregate(p) ==
    /\ pc[p] = "aggregate"
    /\ status' = AggregateStatus(personal_result[p], shared_result[p])
    /\ Returns(p, Ok)
    /\ UNCHANGED <<config, activity_log, dirs, marker, pushed,
                   child, spawned, mine, made, runs>>
    /\ UNCHANGED aside

\* The caller has its result; the context is free for another call.
return(p) ==
    /\ pc[p] = "returned"
    /\ pc' = [pc EXCEPT ![p] = "idle"]
    /\ spawned' = [spawned EXCEPT ![p] = <<>>]
    /\ mine' = [mine EXCEPT ![p] = <<>>]
    /\ made' = [made EXCEPT ![p] = FALSE]
    /\ ret' = [ret EXCEPT ![p] = Unset]
    /\ UNCHANGED <<shared, cfg, token, obscured_token, personal_result,
                   shared_result, is_first_run, child, runs>>
    /\ UNCHANGED aside

\* ---------------------------------------------------------- FileWatcher

\* The variables of the sync engine and of its callers.
engine == <<shared, pc, locals, runs, locks>>

\* The paths start may be given, and Path::exists.
WatchPaths == Targets \cup {"/elsewhere"}
exists(path) == path \in Targets /\ dirs[path]

\* What the watch backend sends into the channel: Ok(event) or Err(error).
EventKinds == {"Create", "Modify"}
RawEvents ==
    {[ok |-> TRUE, kind |-> k] : k \in EventKinds} \cup {[ok |-> FALSE, kind |-> "error"]}

\* The body of FileWatcher::stop: the watch handle and the receiver are
\* dropped, and the queued events with the receiver.
Stop ==
    /\ watcher' = None
    /\ rx' = None
    /\ fresh' = FALSE
    /\ dropped' = IF rx = None THEN 0 ELSE Len(rx[1])

\* FileWatcher::start: a new channel and a new backend watcher that watches
\* the paths that exist; the old pair is replaced.  When the backend cannot
\* be created, or a path cannot be watched, start returns the error and the
\* FileWatcher is as it was.
start(paths) ==
    /\ ops < MaxOps
    /\ ops' = ops + 1
    /\ \E created \in BOOLEAN :
         IF created
         THEN /\ watcher' = Some({path \in paths : exists(path)})
              /\ rx' = Some(<<>>)
              /\ fresh' = FALSE
              /\ dropped' = 0
              /\ called' = [op |-> "start", arg |-> paths, result |-> Ok]
         ELSE /\ called' = [op |-> "start", arg |-> paths,
                            result |-> Err("Failed to create watcher")]
              /\ UNCHANGED <<watcher, rx, fresh, dropped>>
    /\ UNCHANGED engine

\* stop with the receiver kept (`self.rx = None` left out).
stop_keeps_queue ==
    /\ ops < MaxOps
    /\ ops' = ops + 1
    /\ watcher' = None
    /\ called' = [op |-> "stop", arg |-> None, result |-> None]
    /\ UNCHANGED <<engine, rx, fresh, dropped>>

\* FileWatcher::stop.
stop ==
    /\ ops < MaxOps
    /\ ops' = ops + 1
    /\ Stop
    /\ called' = [op |-> "stop", arg |-> None, result |-> None]
    /\ UNCHANGED engine

\* The closure of the backend watcher sends a raw event into the channel.
event(raw) ==
    /\ watcher # None
    /\ watcher[1] # {}
    /\ Len(rx[1]) < MaxQueue
    /\ rx' = Some(Append(rx[1], raw))
    /\ fresh' = TRUE
    /\ UNCHANGED <<engine, watcher, dropped, ops, called>>

\* The match of has_changes on try_recv: Ok(Ok(event)) drains the queue and
\* gives true; everything else (an empty queue, or Ok(Err) taken from the
\* head of the queue) gives false.
HasChanges(queue) ==
    IF queue = <<>> THEN [value |-> FALSE, queue |-> queue]
    ELSE IF Head(queue).ok THEN [value |-> TRUE, queue |-> <<>>]
    ELSE [value |-> FALSE, queue |-> Tail(queue)]

\* FileWatcher::has_changes.
has_changes ==
    /\ ops < MaxOps
    /\ ops' = ops + 1
    /\ IF rx = None
       THEN /\ rx' = rx
            /\ called' = [op |-> "has_changes", arg |-> None, result |-> FALSE]
       ELSE /\ rx' = Some(HasChanges(rx[1]).queue)
            /\ called' = [op |-> "has_changes", arg |-> None,
                          result |-> HasChanges(rx[1]).value]
    /\ fresh' = FALSE
    /\ UNCHANGED <<engine, watcher, dropped>>

\* ------------------------------------------------------- other commands

\* login: a successful login stores the token and sets the server and the
\* user of the configuration; a failed one changes nothing.
login(server_url, email) ==
    /\ config' = [config EXCEPT !.server_url = server_url, !.user_email = email]
    /\ config' # config
    /\ UNCHANGED <<status, activity_log, dirs, marker, pushed, pc, locals, runs>>
    /\ UNCHANGED aside

\* update_config: the configuration is replaced by the one given.
update_config(c) ==
    /\ config' = c
    /\ config' # config
    /\ UNCHANGED <<status, activity_log, dirs, marker, pushed, pc, locals, runs>>
    /\ UNCHANGED aside

\* logout, when the token could be removed: the watcher is stopped, the
\* configuration is reset and the status becomes NotConfigured.
logout ==
    /\ Stop
    /\ config' = DefaultConfig
    /\ status' = NotConfigured
    /\ <<config, status>>' # <<config, status>>
    /\ UNCHANGED <<activity_log, dirs, marker, pushed, pc, locals, runs>>
    /\ UNCHANGED <<ops, called, locks>>

\* get_status.
get_status == status

\* SyncEngine::get_activity with `log[..limit]` written for `log[start..]`.
engine_get_activity_oldest(log, limit) ==
    SubSeq(log, 1, IF Len(log) > limit THEN limit ELSE Len(log))

\* SyncEngine::get_activity: the slice log[start..], where start is
\* len - limit when the log is longer than limit, and 0 otherwise.
engine_get_activity(log, limit) ==
    LET start_at == IF Len(log) > limit THEN Len(log) - limit ELSE 0
    IN  SubSeq(log, start_at + 1, Len(log))

\* Option::unwrap_or.
unwrap_or(opt, default) == IF opt = None THEN default ELSE opt[1]

\* The get_activity command: the limit given, or DefaultLimit.
get_activity(limit) ==
    /\ called' = [op |-> "get_activity", arg |-> limit,
                  result |-> engine_get_activity(activity_log,
                                                 unwrap_or(limit, DefaultLimit))]
    /\ UNCHANGED <<engine, watch>>

\* The get_sync_status command.
get_sync_status ==
    /\ called' = [op |-> "get_sync_status", arg |-> None, result |-> get_status]
    /\ UNCHANGED <<engine, watch>>

\* ------------------------------------------------------- specification

Next ==
    \/ \E p \in Procs : trigger_sync(p)
    \/ \E p \in Procs : sync_all_enter(p)
    \/ \E p \in Procs : mkdir_personal(p)
    \/ \E p \in Procs : mkdir_shared(p)
    \/ \E p \in Procs : obscure_start(p)
    \/ \E p \in Procs : obscure_done(p)
    \/ \E p \in Procs, t \in Targets : bisync_start(p, t)
    \/ \E p \in Procs, t \in Targets : bisync_done(p, t)
    \/ \E p \in Procs, t \in Targets : log_result(p, t)
    \/ \E p \in Procs : aggregate(p)
    \/ \E p \in Procs : return(p)
    \/ \E u \in ServerUrls \ {""}, e \in UserEmails \ {""} : login(u, e)
    \/ \E c \in Configs : update_config(c)
    \/ logout

Spec == Init /\ [][Next]_vars

\* ---------------------------------------- the activity log near its capacity

\* The two entries a sync_all call leaves when both targets succeed.
SuccessEntry(i) ==
    Entry(IF i % 2 = 1 THEN "sync_personal" ELSE "sync_shared", "", "success", None)

\* The state after login and n sync_all calls, one after the other, in which
\* both targets succeeded: the log holds their entries.
AfterCalls(n) ==
    /\ config = [server_url |-> "https://d", user_email |-> "u@d"]
    /\ status = Idle
    /\ activity_log = [i \in 1..(2 * n) |-> SuccessEntry(i)]
    /\ pushed = [i \in 1..(2 * n) |-> SuccessEntry(i)]
    /\ dirs = [t \in Targets |-> TRUE]
    /\ marker = [t \in Targets |-> TRUE]
    /\ pc = [p \in Procs |-> "idle"]
    /\ cfg = [p \in Procs |-> DefaultConfig]
    /\ token = [p \in Procs |-> ""]
    /\ obscured_token = [p \in Procs |-> ""]
    /\ personal_result = [p \in Procs |-> Unset]
    /\ shared_result = [p \in Procs |-> Unset]
    /\ is_first_run = [p \in Procs |-> FALSE]
    /\ child = [p \in Procs |-> None]
    /\ spawned = [p \in Procs |-> <<>>]
    /\ ret = [p \in Procs |-> Unset]
    /\ mine = [p \in Procs |-> <<>>]
    /\ made = [p \in Procs |-> FALSE]
    /\ runs = 2 * n
    /\ NewWatcher

InitLog == AfterCalls(PriorCalls)

\* What sync_all may pass to log_activity: the action of a target, and
\* success or an error with the text of the failure.
LoggedOutcomes ==
    { <<"success", None>> } \cup
    { <<"error", Some(ExitError(e, c))>> : e \in {"", "a conflict"}, c \in ExitCodes }

\* One log_activity call of some sync_all call in progress.  The lock of the
\* log is held from the push to the end of the drain, so concurrent calls
\* append one after the other, in any order.
append(t, outcome) ==
    /\ Len(pushed) < 2 * PriorCalls + MaxAppends
    /\ log_activity(ActionName(t), "", outcome[1], outcome[2])
    /\ UNCHANGED <<config, status, dirs, marker, pc, locals, runs>>
    /\ UNCHANGED aside

NextLog == \E t \in Targets, outcome \in LoggedOutcomes : append(t, outcome)

SpecLog == InitLog /\ [][NextLog]_vars

\* --------------------------------------- the queries, the log near capacity

\* The limits get_activity is asked with: none, nothing, one entry, the
\* default, and limits around the capacity of the log.
Limits == {None} \cup {Some(n) : n \in {0, 1, DefaultLimit, LogCap - 1, LogCap, LogCap + 1}}

\* Meanwhile sync_all calls, whose runs cannot be started, append to the log.
NextRead ==
    \/ \E t \in Targets : append(t, <<"error", Some(RunError)>>)
    \/ \E limit \in Limits : get_activity(limit)
    \/ get_sync_status

SpecRead == InitLog /\ [][NextRead]_vars

\* ------------------------------------------- the watcher, driven directly

\* The application after login and one sync_all call, its FileWatcher new.
InitWatch == AfterCalls(1)

NextWatch ==
    \/ \E paths \in SUBSET WatchPaths : start(paths)
    \/ stop
    \/ \E raw \in RawEvents : event(raw)
    \/ has_changes

SpecWatch == InitWatch /\ [][NextWatch]_vars

\* --------------------------------------------- the locks, statement by statement

\* In SpecLock a command is followed one statement at a time, with taking
\* and dropping a lock as statements of their own, so that a lock can be
\* held over several statements and a context can wait for it.  The values
\* written are those of Spec; here it is who holds which lock, and when a
\* child is in flight.
\*
\* A statement: the source line, what it does, the lock or the child it is
\* about, how many of the statements after it the control may skip, and
\* whether the command may return from it.
Statement(line, kind, about, skips, returns) ==
    [line |-> line, kind |-> kind, about |-> about, skips |-> skips,
     returns |-> returns]

\* `*self.<l>.lock().unwrap() = ...;` and `let log = self.<l>.lock().unwrap();
\* ...`: the guard is taken, the value is accessed, the guard is dropped.
Locked(line, l, last) ==
    << Statement(line, "lock", l, {0}, FALSE),
       Statement(line, "access", l, {0}, FALSE),
       Statement(last, "unlock", l, {0}, FALSE) >>

\* run_bisync: the child is started (when the sidecar cannot be created the
\* function returns its error) and awaited; when it failed on a conflict
\* the status is written.
RunBisyncProgram(t) ==
    << Statement(128, "spawn", t, {0, 4}, FALSE),
       Statement(135, "await", t, {0, 3}, FALSE) >>
    \o Locked(161, "status", 161)

\* log_activity: the guard lives from the lock to the end of the function.
LogActivityProgram == Locked(195, "activity_log", 203)

\* sync_all up to the write of Syncing, and from the directories on.
SyncAllHead == << Statement(28, "step", "is_configured", {0}, TRUE) >>
SyncAllBody ==
    << Statement(35, "step", "create_dir_all", {0}, TRUE),
       Statement(37, "step", "create_dir_all", {0}, TRUE),
       Statement(172, "spawn", "obscure", {0}, TRUE),
       Statement(176, "await", "obscure", {0}, TRUE) >>
    \o RunBisyncProgram("personal") \o LogActivityProgram
    \o RunBisyncProgram("shared") \o LogActivityProgram
    \o Locked(78, "status", 89)

\* sync_all with the guard of the first write bound to a variable
\* (`let mut status = self.status.lock().unwrap(); *status = Syncing;`), so
\* that it is dropped only after the obscure step.
SyncAllProgram_guard_kept ==
    SyncAllHead
    \o << Statement(32, "lock", "status", {0}, FALSE),
          Statement(32, "access", "status", {0}, FALSE) >>
    \o SubSeq(SyncAllBody, 1, 4)
    \o << Statement(41, "unlock", "status", {0}, FALSE) >>
    \o SubSeq(SyncAllBody, 5, Len(SyncAllBody))

SyncAllProgram == SyncAllHead \o Locked(32, "status", 32) \o SyncAllBody

\* get_status and get_activity: the guard lives to the end of the function.
GetStatusProgram == Locked(207, "status", 208)
GetActivityProgram == Locked(212, "activity_log", 219)

ProgramOf(name) ==
    CASE name = "sync_all" -> SyncAllProgram
      [] name = "get_status" -> GetStatusProgram
      [] name = "get_activity" -> GetActivityProgram
Commands == {"sync_all", "get_status", "get_activity"}

\* The statement context p stands at.
Running(p) == at[p] # Nowhere
Current(p) == ProgramOf(at[p].program)[at[p].index]
Stands(p, kind) == Running(p) /\ Current(p).kind = kind

\* Where p is after its statement: further on in the command, or out of it,
\* when the statement returns or was the last.
Advance(p) ==
    \E after \in {at[p].index + 1 + k : k \in Current(p).skips}
                 \cup (IF Current(p).returns THEN {0} ELSE {}) :
        at' = [at EXCEPT ![p] =
                 IF after = 0 \/ after > Len(ProgramOf(at[p].program))
                 THEN Nowhere
                 ELSE [program |-> at[p].program, index |-> after]]

\* What SpecLock leaves alone.
unlocked == <<shared, pc, runs, watch, called, cfg, token, obscured_token,
              personal_result, shared_result, is_first_run, spawned, ret,
              mine, made>>

\* A context begins a command.
call(p, name) ==
    /\ ~Running(p)
    /\ at' = [at EXCEPT ![p] = [program |-> name, index |-> 1]]
    /\ UNCHANGED <<unlocked, child, guards>>

\* Mutex::lock: the context gets the lock when no context holds it, and
\* waits otherwise.
lock(p) ==
    /\ Stands(p, "lock")
    /\ guards[Current(p).about] = None
    /\ guards' = [guards EXCEPT ![Current(p).about] = Some(p)]
    /\ Advance(p)
    /\ UNCHANGED <<unlocked, child>>

\* The read or the write through the guard.
access(p) ==
    /\ Stands(p, "access")
    /\ guards[Current(p).about] = Some(p)
    /\ Advance(p)
    /\ UNCHANGED <<unlocked, child, guards>>

\* The guard is dropped.
unlock(p) ==
    /\ Stands(p, "unlock")
    /\ guards' = [guards EXCEPT ![Current(p).about] = None]
    /\ Advance(p)
    /\ UNCHANGED <<unlocked, child>>

\* A statement that takes no lock and starts no child.
step(p) ==
    /\ Stands(p, "step")
    /\ Advance(p)
    /\ UNCHANGED <<unlocked, child, guards>>

\* A child (rclone obscure, rclone bisync) is started, unless the sidecar
\* cannot be created.
spawn(p) ==
    /\ Stands(p, "spawn")
    /\ Advance(p)
    /\ child' = [child EXCEPT ![p] =
                   IF at'[p] # Nowhere /\ at'[p].index = at[p].index + 1
                   THEN Some([kind |-> Current(p).about, args |-> <<>>, env |-> {}])
                   ELSE None]
    /\ UNCHANGED <<unlocked, guards>>

\* The child the context awaits ends.
await(p) ==
    /\ Stands(p, "await")
    /\ child' = [child EXCEPT ![p] = None]
    /\ Advance(p)
    /\ UNCHANGED <<unlocked, guards>>

\* The application after login and one sync_all call, no command running.
InitLock == AfterCalls(1)

NextLock ==
    \/ \E p \in Procs, name \in Commands : call(p, name)
    \/ \E p \in Procs : lock(p)
    \/ \E p \in Procs : access(p)
    \/ \E p \in Procs : unlock(p)
    \/ \E p \in Procs : step(p)
    \/ \E p \in Procs : spawn(p)
    \/ \E p \in Procs : await(p)

SpecLock == InitLock /\ [][NextLock]_vars

\* ------------------------------------------------------------ properties

\* Text of a claim's "in any letter case": the text in lower case.
UpperCase == "ABCDEFGHIJKLMNOPQRSTUVWXYZ"
LowerCase == "abcdefghijklmnopqrstuvwxyz"
LowerChar(c) ==
    IF \E i \in 1..26 : SubSeq(UpperCase, i, i) = c
    THEN LET i == CHOOSE i \in 1..26 : SubSeq(UpperCase, i, i) = c
         IN  SubSeq(LowerCase, i, i)
    ELSE c
RECURSIVE Lower(_)
Lower(s) == IF Len(s) = 0 THEN s
            ELSE LowerChar(SubSeq(s, 1, 1)) \o Lower(SubSeq(s, 2, Len(s)))

\* The failure messages run_bisync can return, and those among them that
\* contain "conflict" in some letter case.
FailureTexts ==
    {SidecarError, RunError} \cup {ExitError(e, c) : e \in Stderrs, c \in ExitCodes}
NamesConflict == {m \in FailureTexts : Contains(Lower(m), "conflict")}

\* A target's result is a failure whose message names a conflict, in any case.
ConflictFailure(r) == IsErr(r) /\ r.err \in NamesConflict
\* A target's result is a failure whose message names no conflict.
OtherFailure(r) == IsErr(r) /\ r.err \in FailureTexts \ NamesConflict

\* No sync_all call is executing.
NoCallInFlight == \A p \in Procs : pc[p] \in {"idle", "returned"}

\* Process p takes the step of sync_all that stands at `here`.
Steps(p, here) == pc[p] = here /\ pc'[p] # here

\* The entries the current call of p has pushed.
Mine(p) == [i \in 1..Len(mine[p]) |-> pushed[mine[p][i]]]

\* The errors the obscure step returns.
ObscureErrors == {"Failed to create rclone sidecar",
                  "Failed to obscure password: io",
                  "Failed to obscure password"}

\* C1: the status is Syncing only while a sync_all call is in flight: with no
\* call executing, get_status does not return Syncing.
C1_SyncingOnlyInFlight == NoCallInFlight => get_status # Syncing

\* C2: when a sync_all call completes and the failure message of either
\* target contains "conflict" in any letter case, the status after the call
\* is Conflict.
C2_ConflictAfterCall ==
    [][\A p \in Procs :
         ( /\ Steps(p, "aggregate")
           /\ ConflictFailure(personal_result[p]) \/ ConflictFailure(shared_result[p]) )
         => status' = Conflict]_vars

\* The local directory a bisync child works on.
IsBisync(c) == c # None /\ c[1].kind \in Targets
DirectoryOf(c) == c[1].args[3]

\* C3: at no time are two bisync children in flight on the same local
\* directory.
C3_OneInvocationPerDirectory ==
    \A p, q \in Procs :
        (p # q /\ IsBisync(child[p]) /\ IsBisync(child[q]))
        => DirectoryOf(child[p]) # DirectoryOf(child[q])

\* Process p takes the step in which its obscure step fails.
ObscureFails(p) ==
    /\ pc[p] \in {"obscure", "obscure_wait"}
    /\ pc'[p] = "returned"

\* C4 as stated: when the obscure step fails, the call returns an error,
\* having created no local directory, started no bisync child and appended no
\* entry.
C4_NothingTouched ==
    [][\A p \in Procs :
         ObscureFails(p) =>
            /\ IsErr(ret'[p])
            /\ ~made'[p]
            /\ \A i \in 1..Len(spawned'[p]) : spawned'[p][i] \notin Targets
            /\ mine'[p] = <<>>]_vars

\* C4 as amended: when the obscure step fails, the call returns an error,
\* having started no bisync child and appended no entry; both local
\* directories exist by then, create_dir_all having succeeded for each.
C4_NoSyncNoEntry ==
    [][\A p \in Procs :
         ObscureFails(p) =>
            /\ IsErr(ret'[p])
            /\ ret'[p].err \in ObscureErrors
            /\ \A i \in 1..Len(spawned'[p]) : spawned'[p][i] \notin Targets
            /\ mine'[p] = <<>>
            /\ activity_log' = activity_log
            /\ \A t \in Targets : dirs'[t]]_vars

\* A call whose obscure child ran and failed has returned; the directories
\* it created are there.
C4_Witness ==
    \E p \in Procs :
        /\ pc[p] = "returned"
        /\ ret[p] = Err("Failed to obscure password")
        /\ spawned[p] = <<"obscure">>
        /\ made[p]
        /\ \A t \in Targets : dirs[t]

\* C5: sync_all returns an error only for an incomplete configuration or a
\* failure of the obscure step (trigger_sync adds "Not logged in"); a local
\* directory that cannot be created is not among the causes.
C5_DirFailureNotFatal ==
    \A p \in Procs :
        (pc[p] = "returned" /\ IsErr(ret[p]))
        => ret[p].err \in ({"Not logged in", "Not configured"} \cup ObscureErrors)

\* C6: sync_all called with an empty server URL or an empty user identity
\* returns "Not configured", leaves the status and the activity log as they
\* were and starts no child.
C6_NotConfiguredNoEffect ==
    [][\A p \in Procs :
         ( /\ Steps(p, "sync_all")
           /\ cfg[p].server_url = "" \/ cfg[p].user_email = "" )
         => /\ pc'[p] = "returned"
            /\ ret'[p] = Err("Not configured")
            /\ status' = status
            /\ activity_log' = activity_log
            /\ child' = child
            /\ spawned'[p] = <<>>]_vars

\* A call with only the server URL set has returned "Not configured" after
\* an earlier call left Idle and two entries.
C6_Witness ==
    \E p \in Procs :
        /\ pc[p] = "returned"
        /\ ret[p] = Err("Not configured")
        /\ config.server_url # ""
        /\ config.user_email = ""
        /\ status = Idle
        /\ Len(activity_log) = 2

\* C7: a sync_all call in which both targets succeed leaves the status Idle
\* and has appended exactly two entries, sync_personal then sync_shared, both
\* with status success.
C7_BothSucceedIdle ==
    [][\A p \in Procs :
         ( /\ Steps(p, "aggregate")
           /\ personal_result[p] = Ok
           /\ shared_result[p] = Ok )
         => /\ status' = Idle
            /\ ret'[p] = Ok
            /\ Len(mine'[p]) = 2
            /\ \A i \in 1..2 : pushed'[mine'[p][i]].status = "success"
            /\ pushed'[mine'[p][1]].action = "sync_personal"
            /\ pushed'[mine'[p][2]].action = "sync_shared"]_vars

\* A call has returned success with the status Idle and its two success
\* entries the last two of the log.
C7_Witness ==
    \E p \in Procs :
        /\ pc[p] = "returned"
        /\ ret[p] = Ok
        /\ status = Idle
        /\ Len(activity_log) = 2
        /\ \A i \in 1..2 : activity_log[i].status = "success"

\* C8: a sync_all call in which a target fails with a message that names no
\* conflict leaves the status Error with the personal target's message if
\* the personal target failed, and the shared target's message otherwise.
C8_FirstFailureCarried ==
    [][\A p \in Procs :
         ( /\ Steps(p, "aggregate")
           /\ OtherFailure(personal_result[p]) \/ OtherFailure(shared_result[p]) )
         => status' = Error(IF IsErr(personal_result[p])
                            THEN personal_result[p].err
                            ELSE shared_result[p].err)]_vars

\* A call in which both targets failed, with different messages, has
\* returned; the status carries the message of the personal target.
C8_Witness ==
    \E p \in Procs :
        /\ pc[p] = "returned"
        /\ Len(mine[p]) = 2
        /\ Mine(p)[1].status = "error"
        /\ Mine(p)[2].status = "error"
        /\ Mine(p)[1].details # Mine(p)[2].details
        /\ status.tag = "Error"
        /\ Mine(p)[1].details = Some(status.message)

\* The entry that reports result r of a target under `action`.
Reports(e, action, r) ==
    /\ e.action = action
    /\ e.status = (IF r = Ok THEN "success" ELSE "error")
    /\ e.details = (IF r = Ok THEN None ELSE Some(r.err))

\* C9: a call past the obscure step appends one entry per target: after the
\* personal run exactly one, reporting the personal result, whatever it is,
\* while the shared run follows; at the aggregation exactly two, the second
\* reporting the shared result; and a call that returned success has
\* appended two.
C9_OneEntryPerTarget ==
    \A p \in Procs :
        /\ pc[p] \in {"bisync_personal", "bisync_personal_wait", "log_personal"}
               => mine[p] = <<>>
        /\ pc[p] \in {"bisync_shared", "bisync_shared_wait", "log_shared", "aggregate"}
               => /\ Len(mine[p]) >= 1
                  /\ Reports(Mine(p)[1], "sync_personal", personal_result[p])
        /\ pc[p] \in {"bisync_shared", "bisync_shared_wait", "log_shared"}
               => Len(mine[p]) = 1
        /\ pc[p] = "aggregate"
               => /\ Len(mine[p]) = 2
                  /\ mine[p][1] < mine[p][2]
                  /\ Reports(Mine(p)[2], "sync_shared", shared_result[p])
        /\ (pc[p] = "returned" /\ ret[p] = Ok) => Len(mine[p]) = 2
        /\ \A i \in 1..Len(mine[p]) : \E j \in 1..Len(activity_log) :
               activity_log[j] = Mine(p)[i]

\* A call stands at the aggregation after the personal target failed and the
\* shared target, run all the same, succeeded.
C9_Witness ==
    \E p \in Procs :
        /\ pc[p] = "aggregate"
        /\ IsErr(personal_result[p])
        /\ shared_result[p] = Ok
        /\ spawned[p] = <<"obscure", "personal", "shared">>
        /\ Mine(p)[1].status = "error"
        /\ Mine(p)[2].status = "success"

\* The last n elements of a sequence.
LastN(seq, n) == SubSeq(seq, Len(seq) - n + 1, Len(seq))
Min(a, b) == IF a < b THEN a ELSE b

\* C10: the log never holds more than 1000 entries, and it holds exactly the
\* most recently pushed entries, as many as fit, in the order they were
\* pushed.
C10_LogKeepsMostRecent ==
    /\ Len(activity_log) <= 1000
    /\ activity_log = LastN(pushed, Min(1000, Len(pushed)))

\* More than 1000 entries have been pushed, the oldest are gone and the
\* newest entry, an error, is the last of the log.
C10_Witness ==
    /\ Len(pushed) > 1000
    /\ Len(activity_log) = 1000
    /\ activity_log[1] = pushed[Len(pushed) - 999]
    /\ activity_log[1000].status = "error"

\* ------------------------------------------------- properties of the watcher

\* The step is a call of the FileWatcher operation `op`.
Calls(op) == ops' = ops + 1 /\ called'.op = op

\* C11: on a watcher that is Watching, has_changes returns true whenever at
\* least one raw event of any kind, an error notification included, is
\* queued, and then leaves the queue empty; it returns false only when the
\* queue is empty.
C11_TrueWheneverQueued ==
    [][(Calls("has_changes") /\ rx # None) =>
         /\ rx[1] # <<>> => (called'.result = TRUE /\ rx' = Some(<<>>))
         /\ called'.result = FALSE => rx[1] = <<>>]_vars

\* C12: a has_changes call returns false when no raw event was queued since
\* the watcher started or since the previous has_changes call.
C12_FalseWithoutNewEvent ==
    [][(Calls("has_changes") /\ ~fresh) => called'.result = FALSE]_vars

\* C18: the watcher is Stopped (no handle, no receiver) or Watching (both);
\* stop leaves it Stopped from either state, and has_changes on a Stopped
\* watcher returns false and leaves it Stopped, whatever was queued before
\* the stop.
C18_StopDiscards ==
    /\ [](watcher = None <=> rx = None)
    /\ [][Calls("stop") => (watcher' = None /\ rx' = None)]_vars
    /\ [][(Calls("has_changes") /\ watcher = None)
            => (called'.result = FALSE /\ watcher' = None /\ rx' = None)]_vars

\* The watcher was stopped with events queued, and has_changes, called after
\* the stop, returned false.
C18_Witness ==
    /\ watcher = None
    /\ dropped > 0
    /\ called.op = "has_changes"
    /\ called.result = FALSE

\* ------------------------------------------------- properties of the queries

\* The step is a query `op` that returned.
Asks(op) == called' # called /\ called'.op = op

\* C13: get_activity(limit) returns the last min(limit, length) entries of
\* the log in append order, for every limit (0 and limits beyond the length
\* of the log included), and neither get_activity nor get_status changes the
\* log or the status.
C13_LastEntriesReadOnly ==
    [][/\ Asks("get_activity") =>
            /\ called'.result =
                 LastN(activity_log,
                       Min(unwrap_or(called'.arg, 50), Len(activity_log)))
            /\ activity_log' = activity_log
            /\ status' = status
       /\ Asks("get_sync_status") =>
            /\ called'.result = status
            /\ activity_log' = activity_log
            /\ status' = status]_vars

\* get_activity, asked without a limit on a full log whose newest entry is an
\* error, returned 50 entries, the newest last.
C13_Witness ==
    /\ called.op = "get_activity"
    /\ called.arg = None
    /\ Len(activity_log) = 1000
    /\ Len(called.result) = 50
    /\ called.result[50] = activity_log[1000]
    /\ called.result[50].status = "error"
    /\ called.result[1] = activity_log[951]

\* ------------------------------------------ further properties of sync_all

\* The place of x in a sequence without repetitions, 0 when it is not there.
IndexOf(seq, x) ==
    IF \E i \in 1..Len(seq) : seq[i] = x
    THEN CHOOSE i \in 1..Len(seq) : seq[i] = x
    ELSE 0

\* C14: within one sync_all call the shared run starts only after the
\* personal run has ended and its entry has been appended: while the call is
\* at the shared run or later, the personal result is there, no personal
\* child is in flight and the first entry of the call is the sync_personal
\* one; the sync_shared entry of the call comes later in the log.
C14_PersonalBeforeShared ==
    \A p \in Procs :
        /\ pc[p] \in {"bisync_shared", "bisync_shared_wait", "log_shared", "aggregate"}
               => /\ personal_result[p] # Unset
                  /\ child[p] # None => child[p][1].kind = "shared"
                  /\ Len(mine[p]) >= 1
                  /\ Mine(p)[1].action = "sync_personal"
        /\ child[p] # None /\ child[p][1].kind = "personal"
               => /\ shared_result[p] = Unset
                  /\ mine[p] = <<>>
                  /\ IndexOf(spawned[p], "shared") = 0
        /\ IndexOf(spawned[p], "shared") > 0
               => IndexOf(spawned[p], "personal") < IndexOf(spawned[p], "shared")
        /\ Len(mine[p]) = 2
               => /\ Mine(p)[1].action = "sync_personal"
                  /\ Mine(p)[2].action = "sync_shared"
                  /\ mine[p][1] < mine[p][2]
                  /\ \E i, j \in 1..Len(activity_log) :
                        /\ i < j
                        /\ activity_log[i] = Mine(p)[1]
                        /\ activity_log[j] = Mine(p)[2]

\* The shared child of a call is in flight; the personal child ran before it
\* and failed, and the error entry of the personal target is in the log.
C14_Witness ==
    \E p \in Procs :
        /\ child[p] # None
        /\ child[p][1].kind = "shared"
        /\ spawned[p] = <<"obscure", "personal", "shared">>
        /\ IsErr(personal_result[p])
        /\ Len(mine[p]) = 1
        /\ activity_log[Len(activity_log)].action = "sync_personal"
        /\ activity_log[Len(activity_log)].status = "error"

\* The mode argument of a bisync child and the result a call holds for t.
ModeOf(c) == c[1].args[Len(c[1].args)]
ResultFor(p, t, pr, sr) == IF t = "personal" THEN pr[p] ELSE sr[p]

\* Process p starts, and ends, the child of target t.
StartsRun(p, t) == pc[p] = AtStart(t) /\ pc'[p] = AtWait(t)
EndsRun(p, t) == pc[p] = AtWait(t) /\ pc'[p] = AtLog(t)

\* C15: the marker of a directory changes only from absent to present, and
\* only in the step in which a first-run child for that directory ends with
\* success; a run that ends in failure leaves the markers as they are; a
\* child started while the marker is absent runs with --resync, one started
\* while it is present runs with --recover and the marker stays.
C15_MarkerOnlyAfterFirstSuccess ==
    [][\A t \in Targets :
            /\ marker'[t] # marker[t] =>
                 /\ marker'[t]
                 /\ \E p \in Procs :
                       /\ EndsRun(p, t)
                       /\ is_first_run[p]
                       /\ ModeOf(child[p]) = "--resync"
                       /\ ResultFor(p, t, personal_result', shared_result') = Ok
            /\ \A p \in Procs :
                 /\ (EndsRun(p, t)
                     /\ IsErr(ResultFor(p, t, personal_result', shared_result')))
                    => marker' = marker
                 /\ StartsRun(p, t) =>
                      /\ ModeOf(child'[p]) = (IF marker[t] THEN "--recover" ELSE "--resync")
                      /\ is_first_run'[p] = ~marker[t]
                      /\ marker' = marker]_vars

\* A first run of the personal target failed on a conflict; a call that began
\* after that failure has its own personal child in flight, again a first
\* run, the marker being absent still.
C15_Witness ==
    \E p, q \in Procs :
        /\ p # q
        /\ personal_result[p] = Err("a conflict")
        /\ is_first_run[p]
        /\ pc[p] = "log_personal"
        /\ status = Syncing
        /\ IsBisync(child[q])
        /\ child[q][1].kind = "personal"
        /\ ModeOf(child[q]) = "--resync"
        /\ ~marker["personal"]

\* The steps of a call between the end of its personal run and its
\* aggregation.
BeforeAggregation == {"log_personal", "bisync_shared", "bisync_shared_wait", "log_shared"}

\* C16: when the run of a target ends in a failure whose message run_bisync
\* classifies as a conflict, the status is Conflict from that step on, and no
\* later step of the same call before its aggregation changes it: while only
\* this call acts, get_status returns Conflict during the shared run.
C16_ConflictSeenMidCall ==
    [][\A p \in Procs :
         /\ \A t \in Targets :
              ( /\ EndsRun(p, t)
                /\ IsErr(ResultFor(p, t, personal_result', shared_result'))
                /\ IsConflictText(ResultFor(p, t, personal_result', shared_result').err) )
              => status' = Conflict
         /\ ( /\ pc[p] \in BeforeAggregation
              /\ pc'[p] # pc[p]
              /\ get_status = Conflict )
            => status' = Conflict]_vars

\* The observer's view while the shared child is in flight, after the personal
\* run failed on a conflict.
C16_Witness ==
    \E p \in Procs :
        /\ pc[p] = "bisync_shared_wait"
        /\ IsBisync(child[p])
        /\ child[p][1].kind = "shared"
        /\ IsErr(personal_result[p])
        /\ IsConflictText(personal_result[p].err)
        /\ get_status = Conflict

\* --------------------------------------------------- properties of the locks

\* C17: no context holds the status lock or the log lock while a child it
\* started (obscure or bisync) is in flight, so a get_status or get_activity
\* of another context never waits for a child to end.
C17_NoLockAcrossInvocation ==
    \A p \in Procs :
        child[p] # None => \A l \in Locks : guards[l] # Some(p)

\* While the personal bisync child of one context is in flight, another
\* context holds the status lock inside get_status.
C17_Witness ==
    \E p, q \in Procs :
        /\ child[p] # None
        /\ child[p][1].kind = "personal"
        /\ at[q].program = "get_status"
        /\ guards["status"] = Some(q)

\* The values the environment of a child holds under `name`.
EnvOf(c, name) == {e[2] : e \in {x \in c[1].env : x[1] = name}}

\* C19: a bisync child gets the credential only through its environment and
\* only obscured: no argument of it contains the token or the obscured
\* token, RCLONE_WEBDAV_PASS holds exactly what the obscure step of the call
\* returned (the trimmed output of `rclone obscure`), and no environment
\* value is the token.
C19_CredentialOnlyInEnvObscured ==
    \A p \in Procs :
        IsBisync(child[p]) =>
            /\ \A i \in 1..Len(child[p][1].args) :
                  /\ ~Contains(child[p][1].args[i], token[p])
                  /\ ~Contains(child[p][1].args[i], obscured_token[p])
            /\ EnvOf(child[p], "RCLONE_WEBDAV_PASS") = {obscured_token[p]}
            /\ obscured_token[p] \in {Trim(out) : out \in ObscureStdouts}
            /\ token[p] = Token
            /\ \A e \in child[p][1].env : ~Contains(e[2], Token)

\* The shared bisync child of a call is in flight with the obscured token in
\* its environment.
C19_Witness ==
    \E p \in Procs :
        /\ IsBisync(child[p])
        /\ child[p][1].kind = "shared"
        /\ <<"RCLONE_WEBDAV_PASS", "0bs">> \in child[p][1].env
        /\ spawned[p] = <<"obscure", "personal", "shared">>

\* C20: the status leaves NotConfigured only when a sync_all call given a
\* complete configuration starts and writes Syncing; a call that was in
\* flight when logout ran does not overwrite NotConfigured with Idle, Error
\* or Conflict.
C20_NotConfiguredUntilNextSync ==
    [][(status = NotConfigured /\ status' # NotConfigured) =>
         /\ status' = Syncing
         /\ \E p \in Procs : Steps(p, "sync_all") /\ is_configured(cfg[p])]_vars

\* The steps of a call from the write of Syncing to its aggregation.
BeforeAggregate ==
    {"mkdir_personal", "mkdir_shared", "obscure", "obscure_wait",
     "bisync_personal", "bisync_personal_wait"} \cup BeforeAggregation

\* C21: a sync_all call given a complete configuration writes Syncing when
\* it starts; from there to its aggregation none of its steps takes the
\* status out of {Syncing, Conflict}, so that while only this call acts
\* get_status returns Syncing or Conflict; the aggregation writes Idle or
\* Error, and no step of the call after it writes the status.
C21_SyncingOrConflictUntilAggregation ==
    [][\A p \in Procs :
         /\ (Steps(p, "sync_all") /\ is_configured(cfg[p]))
            => (status' = Syncing /\ pc'[p] \in BeforeAggregate)
         /\ ( /\ pc[p] \in BeforeAggregate
              /\ pc'[p] # pc[p]
              /\ get_status \in {Syncing, Conflict} )
            => /\ status' \in {Syncing, Conflict}
               /\ status' # status => status' = Conflict
         /\ Steps(p, "aggregate")
            => /\ status' = Idle \/ status'.tag = "Error"
               /\ pc'[p] = "returned"
         /\ (pc[p] = "returned" /\ pc'[p] # pc[p])
            => (status' = status /\ pc'[p] = "idle")]_vars

\* The only call made so far has passed its aggregation: the personal target
\* succeeded, the shared one failed, the status is Error with the message of
\* the shared target, and the other context has done nothing.
C21_Witness ==
    \E p, q \in Procs :
        /\ p # q
        /\ pc[p] = "returned"
        /\ ret[p] = Ok
        /\ pc[q] = "idle"
        /\ Len(pushed) = 2
        /\ Len(mine[p]) = 2
        /\ Mine(p)[1].status = "success"
        /\ Mine(p)[2].status = "error"
        /\ status.tag = "Error"
        /\ Mine(p)[2].details = Some(status.message)

====
